---- MODULE Spec2Model ----
(***************************************************************************)
(* The application controller of src/App.tsx: the React component App, its *)
(* eight state cells, the two handlers handleFileUpload and handleAnalyze, *)
(* and the controls the component renders (upload zone, frame-count        *)
(* slider, analyze button).                                                *)
(*                                                                         *)
(* handleAnalyze is an async function with two awaits.  One invocation is  *)
(* a "run"; it advances in atomic steps, one per stretch of code between   *)
(* suspension points:                                                      *)
(*   lines 37-53  up to the first await                  (handleAnalyze)   *)
(*   lines 49-70  when the extractor's promise settles   (Extract...)      *)
(*   lines 60-70  when the analysis promise settles      (Analyze...)      *)
(* JavaScript runs each stretch to completion, and React applies the state *)
(* updates of one stretch before the next event is delivered, so a step    *)
(* assigns the cells at once.                                              *)
(*                                                                         *)
(* A JavaScript value that may be null is modelled as a sequence of length *)
(* at most one: Null is << >>, Some(v) is << v >>.                         *)
(***************************************************************************)
EXTENDS Naturals, Sequences, FiniteSets

VARIABLES
    videoFile,           \* File | null                       (line 15)
    videoUrl,            \* string | null                     (line 16)
    analysisResult,      \* AnalysisResult | null             (line 17)
    isLoading,           \* boolean                           (line 18)
    loadingMessage,      \* string                            (line 19)
    error,               \* string | null                     (line 20)
    frameCount,          \* number                            (line 21)
    extractionProgress,  \* number, in units of 1/ProgressSteps (line 22)
    runs,                \* the invocations of handleAnalyze that are suspended at an await
    objectUrls,          \* how many object URLs URL.createObjectURL has handed out
    lastEvent,           \* history: the step taken last, and the phase it was taken in
    resultFile,          \* history: the file the run that set analysisResult was started with
    scenario             \* history: how far the behaviour follows the end-to-end scenario

vars == << videoFile, videoUrl, analysisResult, isLoading, loadingMessage, error,
           frameCount, extractionProgress, runs, objectUrls, lastEvent, resultFile,
           scenario >>

----------------------------------------------------------------------------
(* Bounds of the model. *)

\* Invocations of handleAnalyze that may be suspended at the same time.
MaxRuns == 2
\* The most frames the extractor returns.
MaxFrames == 2
\* The number of valid uploads (object URLs created) in one behaviour.
MaxUploads == 3
\* extractionProgress is k / ProgressSteps for k in 0..ProgressSteps.
ProgressSteps == 2

(* Program constants. *)
FrameCountDefault == 15
SliderMin == 5
SliderMax == 50

----------------------------------------------------------------------------
(* Values. *)

Null == << >>
Some(v) == << v >>

\* String.prototype.startsWith
StartsWith(s, prefix) ==
    /\ Len(s) >= Len(prefix)
    /\ SubSeq(s, 1, Len(prefix)) = prefix

\* The files a user may hand to the upload zone (file: File, line 25).
VideoFiles ==
    { [name |-> "a.mp4", type |-> "video/mp4"],
      [name |-> "b.webm", type |-> "video/webm"] }
OtherFiles ==
    { [name |-> "c.png", type |-> "image/png"],
      [name |-> "d", type |-> "video"],
      [name |-> "e", type |-> ""] }
UploadInputs == { Some(f) : f \in VideoFiles \cup OtherFiles }

\* The values of a range input without the min and max attributes of lines 92-93.
SliderInputsUnbounded == { 0, FrameCountDefault, 100 }

\* The values the range input can report: min, max and the default.
SliderInputs == { SliderMin, FrameCountDefault, SliderMax }

\* The condition of line 26: file && file.type.startsWith('video/')
IsVideoUpload(file) == file /= Null /\ StartsWith(file[1].type, "video/")

InvalidUploadMessage == "Please upload a valid video file."
NoFileMessage == "No video file selected."
ZeroFramesMessage ==
    "Could not extract any frames from the video. The file might be corrupted or in an unsupported format."
UnknownErrorMessage == "An unknown error occurred during analysis."
AnalysisFailedPrefix == "Analysis Failed: "
ExtractingMessage == "Extracting key frames from video..."
SendingMessage == "Sending frames to Gemini for analysis..."

\* new Error(message), and a thrown value that is no Error.
NewError(message) == [isError |-> TRUE, message |-> message]
NonError == [isError |-> FALSE, message |-> "[object Event]"]

\* What the extractor and the analysis client may reject with.
ExtractionFaults == { NewError("Failed to load video."), NonError }
AnalysisFaults == { NewError("Failed to get a valid analysis from the AI model."), NonError }

\* The frames the extractor may resolve with for (file, count): 0..MaxFrames stills of
\* the file, never more than count.
FramesOf(file, n) == [i \in 1..n |-> [file |-> file.name, index |-> i]]
ExtractionResults(file, count) ==
    { FramesOf(file, n) : n \in { k \in 0..MaxFrames : k <= count } }

\* The AnalysisResult values (types.ts) the analysis client may resolve with.
Responses ==
    { [title |-> "T", summary |-> "S", key_topics |-> << "a" >>,
       key_moments |-> << [timestamp_description |-> "0:02", event_summary |-> "x"] >>],
      [title |-> "U", summary |-> "V", key_topics |-> << >>, key_moments |-> << >>] }

\* A slot of runs that holds no suspended invocation.
IdleRun == [pc |-> "idle", videoFile |-> Null, frameCount |-> 0, frames |-> << >>, progress |-> 0]
Slots == 1..MaxRuns
Outstanding == { r \in Slots : runs[r].pc /= "idle" }
\* The slot the next invocation takes.
FreeSlots == { r \in Slots : runs[r].pc = "idle" /\ \A q \in Slots : q < r => runs[q].pc /= "idle" }

----------------------------------------------------------------------------
(* The controller states of the specification, read off the cells. *)

Phase ==
    IF \E r \in Slots : runs[r].pc = "extracting" THEN "Extracting"
    ELSE IF \E r \in Slots : runs[r].pc = "analyzing" THEN "Analyzing"
    ELSE IF videoFile = Null THEN "Idle"
    ELSE IF analysisResult /= Null THEN "Done"
    ELSE IF error /= Null THEN "Failed"
    ELSE "FileSelected"

\* A step: what was called, with what, and the phase it was called in.
Event(op, arg) == [op |-> op, arg |-> arg, from |-> Phase]

----------------------------------------------------------------------------
Init ==
    /\ videoFile = Null
    /\ videoUrl = Null
    /\ analysisResult = Null
    /\ resultFile = Null
    /\ isLoading = FALSE
    /\ loadingMessage = ""
    /\ error = Null
    /\ frameCount = FrameCountDefault
    /\ extractionProgress = 0
    /\ runs = [r \in Slots |-> IdleRun]
    /\ objectUrls = 0
    /\ lastEvent = Event("init", Null)
    /\ scenario = "start"

\* The end-to-end scenario: valid upload, analyze, extraction with frames, analysis
\* response, and nothing else but slider changes and progress reports.
Advance(from, to) == scenario' = IF scenario = from THEN to ELSE "off"

----------------------------------------------------------------------------
(* handleFileUpload, lines 25-34. *)

\* URL.createObjectURL: a fresh URL on every call.
CreateObjectURL == [blob |-> objectUrls + 1]

\* handleFileUpload testing startsWith('video') in place of startsWith('video/').
handleFileUploadLoose(file) ==
    /\ IF file /= Null /\ StartsWith(file[1].type, "video")
         THEN /\ videoFile' = file
              /\ videoUrl' = Some(CreateObjectURL)
              /\ objectUrls' = objectUrls + 1
              /\ analysisResult' = Null /\ resultFile' = Null
              /\ error' = Null
              /\ Advance("start", "uploaded")
         ELSE /\ error' = Some(InvalidUploadMessage)
              /\ scenario' = "off"
              /\ UNCHANGED << videoFile, videoUrl, objectUrls, analysisResult, resultFile >>
    /\ lastEvent' = Event("upload", file)
    /\ UNCHANGED << isLoading, loadingMessage, frameCount, extractionProgress, runs >>

\* handleFileUpload without setError(null) in the accepting branch.
handleFileUploadKeepsError(file) ==
    /\ IF IsVideoUpload(file)
         THEN /\ videoFile' = file
              /\ videoUrl' = Some(CreateObjectURL)
              /\ objectUrls' = objectUrls + 1
              /\ analysisResult' = Null /\ resultFile' = Null
              /\ error' = error
              /\ Advance("start", "uploaded")
         ELSE /\ error' = Some(InvalidUploadMessage)
              /\ scenario' = "off"
              /\ UNCHANGED << videoFile, videoUrl, objectUrls, analysisResult, resultFile >>
    /\ lastEvent' = Event("upload", file)
    /\ UNCHANGED << isLoading, loadingMessage, frameCount, extractionProgress, runs >>

\* handleFileUpload with setAnalysisResult(null) moved above the test of the type.
handleFileUploadClearsFirst(file) ==
    /\ analysisResult' = Null /\ resultFile' = Null
    /\ IF IsVideoUpload(file)
         THEN /\ videoFile' = file
              /\ videoUrl' = Some(CreateObjectURL)
              /\ objectUrls' = objectUrls + 1
              /\ error' = Null
              /\ Advance("start", "uploaded")
         ELSE /\ error' = Some(InvalidUploadMessage)
              /\ scenario' = "off"
              /\ UNCHANGED << videoFile, videoUrl, objectUrls >>
    /\ lastEvent' = Event("upload", file)
    /\ UNCHANGED << isLoading, loadingMessage, frameCount, extractionProgress, runs >>

handleFileUpload(file) ==
    /\ IF IsVideoUpload(file)
         THEN /\ videoFile' = file
              /\ videoUrl' = Some(CreateObjectURL)
              /\ objectUrls' = objectUrls + 1
              /\ analysisResult' = Null /\ resultFile' = Null
              /\ error' = Null
              /\ Advance("start", "uploaded")
         ELSE /\ error' = Some(InvalidUploadMessage)
              /\ scenario' = "off"
              /\ UNCHANGED << videoFile, videoUrl, objectUrls, analysisResult, resultFile >>
    /\ lastEvent' = Event("upload", file)
    /\ UNCHANGED << isLoading, loadingMessage, frameCount, extractionProgress, runs >>

\* The upload zone takes a dropped or picked file whatever the controller is doing:
\* of the controls, only the analyze trigger and the frame-count slider are disabled
\* while an operation is outstanding.
UploadZoneAccepts == TRUE

\* The upload zone (line 79) hands the file it is given to onFileUpload.
Upload ==
    \E file \in UploadInputs :
        /\ UploadZoneAccepts
        /\ IsVideoUpload(file) => objectUrls < MaxUploads
        /\ handleFileUpload(file)

\* The object URLs created and not released: App.tsx never calls URL.revokeObjectURL.
LiveObjectUrls == { [blob |-> n] : n \in 1..objectUrls }

----------------------------------------------------------------------------
(* The frame-count slider, lines 81-101. *)

\* The slider without disabled={isLoading}.
SliderRendered == videoFile /= Null

SliderEnabled == videoFile /= Null /\ ~isLoading

SliderChange ==
    \E v \in SliderInputs :
        /\ SliderEnabled
        /\ frameCount' = v
        /\ lastEvent' = Event("slider", v)
        /\ scenario' = IF scenario = "uploaded" THEN scenario ELSE "off"
        /\ UNCHANGED << videoFile, videoUrl, analysisResult, resultFile, isLoading, loadingMessage,
                        error, extractionProgress, runs, objectUrls >>

----------------------------------------------------------------------------
(* handleAnalyze, lines 36-71. *)

\* handleAnalyze with setIsLoading(true) moved above the check of videoFile.
handleAnalyzeLoadsFirst ==
    IF videoFile = Null
    THEN /\ isLoading' = TRUE
         /\ error' = Some(NoFileMessage)
         /\ lastEvent' = Event("analyze", Null)
         /\ scenario' = "off"
         /\ UNCHANGED << videoFile, videoUrl, analysisResult, resultFile, loadingMessage,
                         frameCount, extractionProgress, runs, objectUrls >>
    ELSE \E r \in FreeSlots :
         /\ isLoading' = TRUE
         /\ error' = Null
         /\ analysisResult' = Null /\ resultFile' = Null
         /\ extractionProgress' = 0
         /\ loadingMessage' = ExtractingMessage
         /\ runs' = [runs EXCEPT ![r] = [pc |-> "extracting", videoFile |-> videoFile,
                                         frameCount |-> frameCount, frames |-> << >>,
                                         progress |-> 0]]
         /\ lastEvent' = Event("analyze", Some(r))
         /\ Advance("uploaded", "started")
         /\ UNCHANGED << videoFile, videoUrl, frameCount, objectUrls >>

\* handleAnalyze without setExtractionProgress(0).
handleAnalyzeKeepsProgress ==
    IF videoFile = Null
    THEN /\ error' = Some(NoFileMessage)
         /\ lastEvent' = Event("analyze", Null)
         /\ scenario' = "off"
         /\ UNCHANGED << videoFile, videoUrl, analysisResult, resultFile, isLoading,
                         loadingMessage, frameCount, extractionProgress, runs, objectUrls >>
    ELSE \E r \in FreeSlots :
         /\ isLoading' = TRUE
         /\ error' = Null
         /\ analysisResult' = Null /\ resultFile' = Null
         /\ loadingMessage' = ExtractingMessage
         /\ runs' = [runs EXCEPT ![r] = [pc |-> "extracting", videoFile |-> videoFile,
                                         frameCount |-> frameCount, frames |-> << >>,
                                         progress |-> 0]]
         /\ lastEvent' = Event("analyze", Some(r))
         /\ Advance("uploaded", "started")
         /\ UNCHANGED << videoFile, videoUrl, frameCount, objectUrls, extractionProgress >>

\* Lines 37-53: the precondition, the resets, and the call of the extractor with the
\* videoFile and frameCount of the render the callback belongs to.
handleAnalyze ==
    IF videoFile = Null
    THEN /\ error' = Some(NoFileMessage)
         /\ lastEvent' = Event("analyze", Null)
         /\ scenario' = "off"
         /\ UNCHANGED << videoFile, videoUrl, analysisResult, resultFile, isLoading, loadingMessage,
                         frameCount, extractionProgress, runs, objectUrls >>
    ELSE \E r \in FreeSlots :
         /\ isLoading' = TRUE
         /\ error' = Null
         /\ analysisResult' = Null /\ resultFile' = Null
         /\ extractionProgress' = 0
         /\ loadingMessage' = ExtractingMessage
         /\ runs' = [runs EXCEPT ![r] = [pc |-> "extracting", videoFile |-> videoFile,
                                         frameCount |-> frameCount, frames |-> << >>,
                                         progress |-> 0]]
         /\ lastEvent' = Event("analyze", Some(r))
         /\ Advance("uploaded", "started")
         /\ UNCHANGED << videoFile, videoUrl, frameCount, objectUrls >>

\* The button rendered on videoFile alone.
AnalyzeButtonWithFile == videoFile /= Null

\* Lines 102-110: the button is rendered only with a file and while not loading.
AnalyzeButtonRendered == videoFile /= Null /\ ~isLoading

AnalyzeClick == AnalyzeButtonRendered /\ handleAnalyze

\* handleAnalyze called as a function while no file is selected (no button is rendered).
CallWithoutFile == videoFile = Null /\ handleAnalyze

\* Line 52: the progress callback, called by the extractor while it runs with values
\* that do not decrease.
OnProgress ==
    \E r \in Slots : \E p \in 0..ProgressSteps :
        /\ runs[r].pc = "extracting"
        /\ p >= runs[r].progress
        /\ extractionProgress' = p
        /\ runs' = [runs EXCEPT ![r].progress = p]
        /\ lastEvent' = Event("progress", [run |-> r, progress |-> p])
        /\ UNCHANGED << videoFile, videoUrl, analysisResult, resultFile, isLoading, loadingMessage,
                        error, frameCount, objectUrls, scenario >>

\* Line 65 with the fallback message for every thrown value.
ErrorMessageUnknown(err) == UnknownErrorMessage

\* Line 65.
ErrorMessage(err) == IF err.isError THEN err.message ELSE UnknownErrorMessage

\* The finally block without setIsLoading(false).
FinallyKeepsLoading ==
    /\ isLoading' = isLoading
    /\ loadingMessage' = ""

\* Lines 67-70.
Finally ==
    /\ isLoading' = FALSE
    /\ loadingMessage' = ""

\* The catch block with the loading flag cleared on the success path only.
CatchLeavesLoading(r, err) ==
    /\ error' = Some(AnalysisFailedPrefix \o ErrorMessage(err))
    /\ runs' = [runs EXCEPT ![r] = IdleRun]
    /\ scenario' = "off"
    /\ UNCHANGED << videoFile, videoUrl, analysisResult, resultFile, frameCount, extractionProgress,
                    objectUrls, isLoading, loadingMessage >>

\* A catch block that calls the extractor again instead of ending the invocation.
CatchRetries(r, err) ==
    /\ error' = Some(AnalysisFailedPrefix \o ErrorMessage(err))
    /\ runs' = [runs EXCEPT ![r].pc = "extracting", ![r].frames = << >>, ![r].progress = 0]
    /\ scenario' = "off"
    /\ UNCHANGED << videoFile, videoUrl, analysisResult, resultFile, frameCount,
                    extractionProgress, objectUrls, isLoading, loadingMessage >>

\* Lines 63-70: the catch block and the finally block; the invocation ends.
Catch(r, err) ==
    /\ error' = Some(AnalysisFailedPrefix \o ErrorMessage(err))
    /\ Finally
    /\ runs' = [runs EXCEPT ![r] = IdleRun]
    /\ scenario' = "off"
    /\ UNCHANGED << videoFile, videoUrl, analysisResult, resultFile, frameCount, extractionProgress,
                    objectUrls >>

\* Lines 55-60 without the zero-frames check.
AfterExtractionUnchecked(r, frames) ==
    /\ loadingMessage' = SendingMessage
    /\ runs' = [runs EXCEPT ![r].pc = "analyzing", ![r].frames = frames]
    /\ Advance("started", "extracted")
    /\ UNCHANGED << videoFile, videoUrl, analysisResult, resultFile, isLoading, error, frameCount,
                    extractionProgress, objectUrls >>

\* Lines 55-60: the zero-frames check, and the call of the analysis client.
AfterExtraction(r, frames) ==
    IF Len(frames) = 0
    THEN Catch(r, NewError(ZeroFramesMessage))
    ELSE /\ loadingMessage' = SendingMessage
         /\ runs' = [runs EXCEPT ![r].pc = "analyzing", ![r].frames = frames]
         /\ Advance("started", "extracted")
         /\ UNCHANGED << videoFile, videoUrl, analysisResult, resultFile, isLoading, error, frameCount,
                         extractionProgress, objectUrls >>

\* The promise of line 49 resolves.
ExtractResolve ==
    \E r \in Slots :
        /\ runs[r].pc = "extracting"
        /\ \E frames \in ExtractionResults(runs[r].videoFile[1], runs[r].frameCount) :
               /\ AfterExtraction(r, frames)
               /\ lastEvent' = Event("extractResolve", [run |-> r, of |-> runs[r], frames |-> frames])

\* The promise of line 49 rejects.
ExtractReject ==
    \E r \in Slots : \E err \in ExtractionFaults :
        /\ runs[r].pc = "extracting"
        /\ Catch(r, err)
        /\ lastEvent' = Event("extractReject", [run |-> r, of |-> runs[r], cause |-> err])

\* The success path without setAnalysisResult(result).
AnalyzeResolveDropsResult ==
    \E r \in Slots : \E result \in Responses :
        /\ runs[r].pc = "analyzing"
        /\ Finally
        /\ runs' = [runs EXCEPT ![r] = IdleRun]
        /\ lastEvent' = Event("analyzeResolve", [run |-> r, of |-> runs[r], result |-> result])
        /\ Advance("extracted", "finished")
        /\ UNCHANGED << videoFile, videoUrl, analysisResult, resultFile, error, frameCount,
                        extractionProgress, objectUrls >>

\* The promise of line 60 resolves: line 61, then the finally block.
AnalyzeResolve ==
    \E r \in Slots : \E result \in Responses :
        /\ runs[r].pc = "analyzing"
        /\ analysisResult' = Some(result)
        /\ resultFile' = runs[r].videoFile
        /\ Finally
        /\ runs' = [runs EXCEPT ![r] = IdleRun]
        /\ lastEvent' = Event("analyzeResolve", [run |-> r, of |-> runs[r], result |-> result])
        /\ Advance("extracted", "finished")
        /\ UNCHANGED << videoFile, videoUrl, error, frameCount, extractionProgress,
                        objectUrls >>

\* The promise of line 60 rejects.
AnalyzeReject ==
    \E r \in Slots : \E err \in AnalysisFaults :
        /\ runs[r].pc = "analyzing"
        /\ Catch(r, err)
        /\ lastEvent' = Event("analyzeReject", [run |-> r, of |-> runs[r], cause |-> err])

----------------------------------------------------------------------------
(* The component driven through the controls it renders. *)
Next ==
    \/ Upload
    \/ SliderChange
    \/ AnalyzeClick
    \/ OnProgress
    \/ ExtractResolve
    \/ ExtractReject
    \/ AnalyzeResolve
    \/ AnalyzeReject

Spec == Init /\ [][Next]_vars

\* Every call of the extractor and of the analysis client settles.
Settles ==
    /\ WF_vars(ExtractResolve \/ ExtractReject)
    /\ WF_vars(AnalyzeResolve \/ AnalyzeReject)

FairSpec == Spec /\ Settles

(* The same, and handleAnalyze called as a function while no file is selected. *)
NextCalls ==
    \/ Next
    \/ CallWithoutFile

SpecCalls == Init /\ [][NextCalls]_vars

----------------------------------------------------------------------------
(* What the step taken last was, for the properties below. *)

\* handleAnalyze ran to its end through line 61.
RunSucceeded == lastEvent.op = "analyzeResolve"
\* The extractor resolved with no frame.
ZeroFrames == lastEvent.op = "extractResolve" /\ Len(lastEvent.arg.frames) = 0
\* handleAnalyze ran to its end through the catch block.
RunFailed == lastEvent.op \in { "extractReject", "analyzeReject" } \/ ZeroFrames
\* handleFileUpload was called with a file whose type does not start with "video/".
NonVideoUploaded ==
    /\ lastEvent.op = "upload"
    /\ lastEvent.arg /= Null
    /\ ~StartsWith(lastEvent.arg[1].type, "video/")

----------------------------------------------------------------------------
(* C1: when a run completes, exactly one of analysisResult and error is     *)
(* non-null: after a success analysisResult is set and error is null, after *)
(* a failure error is set and analysisResult is null, whatever calls of     *)
(* handleFileUpload came between the awaits.                                *)
C1_ExactlyOneAfterRun ==
    /\ RunSucceeded => analysisResult /= Null /\ error = Null
    /\ RunFailed => error /= Null /\ analysisResult = Null

(* C2: at most one run is in flight: the number of outstanding calls of the *)
(* extractor and the analysis client is 0 or 1 in every reachable state.    *)
C2_AtMostOneRun == Cardinality(Outstanding) <= 1

\* After two uploads and a slider change, a click has started the one run in flight.
C2_Witness ==
    /\ Cardinality(Outstanding) = 1
    /\ lastEvent.op = "analyze"
    /\ objectUrls >= 2
    /\ frameCount /= FrameCountDefault

(* C3: isLoading is true exactly while an extraction or analysis call is    *)
(* outstanding; it is false in Idle, FileSelected, Done and Failed, and it  *)
(* is false after every step that ends a run.                               *)
C3_LoadingIffInFlight ==
    /\ isLoading <=> Outstanding /= {}
    /\ isLoading <=> Phase \in { "Extracting", "Analyzing" }
    /\ RunSucceeded \/ RunFailed => ~isLoading

\* A run has just ended in Failed with the flag cleared.
C3_Witness == RunFailed /\ Phase = "Failed" /\ ~isLoading

(* C4: in every state, handleFileUpload with a file whose MIME type does    *)
(* not start with "video/" leaves videoFile and videoUrl as they were and   *)
(* sets error to 'Please upload a valid video file.'.                       *)
C4_InvalidUploadKeepsFile ==
    [][NonVideoUploaded' =>
          /\ videoFile' = videoFile
          /\ videoUrl' = videoUrl
          /\ error' = Some("Please upload a valid video file.")]_vars

\* A non-video file was uploaded while a video was selected and analysed.
C4_Witness ==
    /\ NonVideoUploaded
    /\ videoFile /= Null
    /\ videoUrl /= Null
    /\ analysisResult /= Null
    /\ error = Some("Please upload a valid video file.")

(* C5: handleAnalyze invoked while videoFile is null sets error to          *)
(* 'No video file selected.', leaves isLoading false, stays in the same     *)
(* controller state and calls neither the extractor nor the analysis        *)
(* client.                                                                  *)
C5_NoFileNoRun ==
    [][lastEvent'.op = "analyze" /\ videoFile = Null =>
          /\ error' = Some("No video file selected.")
          /\ isLoading' = FALSE
          /\ Phase' = Phase
          /\ runs' = runs
          /\ Outstanding' = {}]_vars

\* handleAnalyze was called with no file selected.
C5_Witness ==
    /\ lastEvent.op = "analyze"
    /\ videoFile = Null
    /\ error = Some("No video file selected.")
    /\ ~isLoading

(* C6: analyzeVideoFrames is never called with an empty frame sequence:     *)
(* when the extractor resolves with zero frames the run ends in Failed      *)
(* (error set as for a thrown fault, loading cleared) without entering      *)
(* Analyzing, and it enters Analyzing only with the frames returned, at     *)
(* least one.                                                               *)
C6_NoEmptyFramesAnalyzed ==
    /\ [](\A r \in Slots : runs[r].pc = "analyzing" => Len(runs[r].frames) >= 1)
    /\ [][lastEvent'.op = "extractResolve" =>
            LET r == lastEvent'.arg.run
                frames == lastEvent'.arg.frames
            IN  /\ runs[r].pc = "extracting"
                /\ IF Len(frames) = 0
                   THEN /\ runs'[r].pc = "idle"
                        /\ Phase' = "Failed"
                        /\ error' /= Null
                        /\ StartsWith(error'[1], "Analysis Failed: ")
                        /\ isLoading' = FALSE
                   ELSE /\ runs'[r].pc = "analyzing"
                        /\ runs'[r].frames = frames
                        /\ Phase' = "Analyzing"]_vars

\* The extractor resolved with no frame and the run ended in Failed.
C6_Witness == ZeroFrames /\ Phase = "Failed" /\ Outstanding = {}

C8_EndToEnd ==
    /\ scenario = "start" => Phase = "Idle"
    /\ scenario = "uploaded" => Phase = "FileSelected"
    /\ scenario = "started" => Phase = "Extracting"
    /\ scenario = "extracted" => Phase = "Analyzing"
    /\ scenario = "finished" =>
          /\ Phase = "Done"
          /\ RunSucceeded
          /\ analysisResult = Some(lastEvent.arg.result)
          /\ error = Null
          /\ ~isLoading

\* The scenario ran to its end.
C8_Witness == scenario = "finished" /\ analysisResult /= Null

(* C9: with every outstanding extractor and analysis call settling, a run   *)
(* that is in Extracting leads to Done or Failed with isLoading false; no   *)
(* upload, slider change or click keeps it from ending.                     *)
C9_RunEnds ==
    (Phase = "Extracting") ~> (Phase \in { "Done", "Failed" } /\ ~isLoading /\ Outstanding = {})

\* A run ended although another video was uploaded while it was in flight.
C9_Witness ==
    /\ RunSucceeded \/ RunFailed
    /\ lastEvent.arg.of.videoFile /= videoFile
    /\ Phase \in { "Done", "Failed" }
    /\ ~isLoading

(* C10: frameCount does not change while a run is in Extracting or          *)
(* Analyzing, so when a run ends frameCount is the count that was passed to *)
(* the extractor when the run started.                                      *)
C10_FrameCountFrozen ==
    /\ [][Outstanding /= {} => frameCount' = frameCount]_vars
    /\ [](RunSucceeded \/ RunFailed => frameCount = lastEvent.arg.of.frameCount)

\* A run started with a count set on the slider has ended.
C10_Witness ==
    /\ RunSucceeded
    /\ frameCount = SliderMax
    /\ lastEvent.arg.of.frameCount = SliderMax

\* handleFileUpload was called with a file whose type starts with "video/".
VideoUploaded ==
    /\ lastEvent.op = "upload"
    /\ lastEvent.arg /= Null
    /\ StartsWith(lastEvent.arg[1].type, "video/")
\* handleAnalyze was called with a file selected: a run started.
RunStarted == lastEvent.op = "analyze" /\ lastEvent.arg /= Null

(* C11: a valid upload made in Done or Failed moves the controller to       *)
(* FileSelected: videoFile is the new file, videoUrl its fresh preview URL, *)
(* analysisResult and error are null, and frameCount is unchanged.          *)
C11_UploadAfterRun ==
    [][VideoUploaded' /\ Phase \in { "Done", "Failed" } =>
          /\ Phase' = "FileSelected"
          /\ videoFile' = lastEvent'.arg
          /\ videoUrl' /= Null
          /\ videoUrl' /= videoUrl
          /\ analysisResult' = Null
          /\ error' = Null
          /\ frameCount' = frameCount]_vars

\* A video was uploaded in Failed, after the slider had been moved.
C11_Witness ==
    /\ VideoUploaded
    /\ lastEvent.from = "Failed"
    /\ Phase = "FileSelected"
    /\ frameCount /= FrameCountDefault

(* C12 as stated: once analysisResult is set, it keeps its value until the  *)
(* next run starts (handleAnalyze with a file present), which clears it; no *)
(* other event modifies or clears it.                                       *)
C12_ResultUntilNextRun ==
    [][analysisResult /= Null /\ analysisResult' /= analysisResult =>
          analysisResult' = Null /\ RunStarted']_vars

(* C12 as amended: once analysisResult is set, it keeps its value until the *)
(* next run starts or a file whose type starts with "video/" is uploaded,   *)
(* each of which clears it; no other event modifies or clears it.           *)
C12_ResultUntilRunOrUpload ==
    [][analysisResult /= Null /\ analysisResult' /= analysisResult =>
          analysisResult' = Null /\ (RunStarted' \/ VideoUploaded')]_vars

\* A result was shown and an upload of a video has cleared it.
C12_Witness ==
    /\ VideoUploaded
    /\ lastEvent.from = "Done"
    /\ analysisResult = Null

(* C13: at most one preview object URL is live at any time: the URLs        *)
(* created and not released are the one held in videoUrl, or none.          *)
C13_OneLivePreviewUrl ==
    /\ Cardinality(LiveObjectUrls) <= 1
    /\ \A u \in LiveObjectUrls : videoUrl = Some(u)

\* The cells a user sees, for "takes no effect".
Cells == << videoFile, videoUrl, analysisResult, isLoading, loadingMessage, error,
            frameCount, extractionProgress >>

C15_NeverResultAndError == ~(analysisResult /= Null /\ error /= Null)

(* C16: no retries.  Each analyze action with a file present starts one     *)
(* call of the extractor; the analysis client is called only when that call *)
(* has resolved, and once; a run that has failed leaves no call             *)
(* outstanding, and a new extractor call starts only with an analyze        *)
(* action of the user.                                                      *)
C16_NoRetries ==
    /\ [][lastEvent'.op = "analyze" /\ videoFile /= Null =>
            Cardinality(Outstanding') = Cardinality(Outstanding) + 1]_vars
    /\ [][\A r \in Slots :
            /\ runs'[r].pc = "extracting" /\ runs'[r] /= runs[r] =>
                  \/ runs[r].pc = "idle" /\ RunStarted'
                  \/ runs[r].pc = "extracting" /\ lastEvent'.op = "progress"
            /\ runs'[r].pc = "analyzing" /\ runs'[r] /= runs[r] =>
                  runs[r].pc = "extracting" /\ lastEvent'.op = "extractResolve"
            /\ runs[r].pc = "analyzing" => runs'[r].pc \in { "analyzing", "idle" }]_vars
    /\ [](RunFailed => Outstanding = {})

\* The analysis client rejected and nothing was called again.
C16_Witness ==
    /\ lastEvent.op = "analyzeReject"
    /\ Len(lastEvent.arg.of.frames) >= 1
    /\ Outstanding = {}
    /\ error /= Null

(* C17: frameCount is an integer in 5..50 in every reachable state, 15 at   *)
(* the start; every call of the extractor receives a count in 5..50, the    *)
(* frameCount shown when the analyze action was triggered.                  *)
C17_FrameCountInRange ==
    /\ frameCount = 15
    /\ [](frameCount \in 5..50)
    /\ [](\A r \in Outstanding : runs[r].frameCount \in 5..50)
    /\ [][RunStarted' => runs'[lastEvent'.arg[1]].frameCount = frameCount]_vars

\* The extractor was called with the smallest count of the slider.
C17_Witness ==
    /\ RunStarted
    /\ frameCount = 5
    /\ runs[lastEvent.arg[1]].pc = "extracting"
    /\ runs[lastEvent.arg[1]].frameCount = 5

(* C18: extractionProgress is set to 0 when a run starts and is changed     *)
(* otherwise only by the extractor's progress callback; with callback       *)
(* values that do not decrease it stays in [0,1] and does not decrease      *)
(* while the run is in flight.  Uploads, slider changes and the end of a    *)
(* run leave it alone.                                                      *)
C18_ProgressMonotone ==
    /\ [](extractionProgress \in 0..ProgressSteps)
    /\ [][RunStarted' => extractionProgress' = 0]_vars
    /\ [][extractionProgress' /= extractionProgress =>
            RunStarted' \/ lastEvent'.op = "progress"]_vars
    /\ [][Outstanding /= {} => extractionProgress' >= extractionProgress]_vars

\* A second run on the same file has started and the progress is back at 0.
C18_Witness ==
    /\ RunStarted
    /\ lastEvent.from \in { "Done", "Failed" }
    /\ extractionProgress = 0
    /\ objectUrls = 1

(* C19: whenever analysisResult is non-null, the run that produced it was   *)
(* started with the file now held in videoFile.                             *)
C19_ResultOfCurrentFile == analysisResult /= Null => resultFile = videoFile

====
